---- MODULE Spec2Model ----
(***************************************************************************)
(* Model of the rustc-perf comparison page: the page controller            *)
(* (pages/compare/page.vue, here src/unnamed/part_000) and the tab strip   *)
(* (components/tabs.vue).  The state is the URL query string, the reactive *)
(* refs of the controller, the tab descriptors it builds, and the tab      *)
(* strip's local selection.                                                *)
(***************************************************************************)
EXTENDS Integers, Sequences, FiniteSets, TLC

(***************************************************************************)
(* Bounds of the model.                                                    *)
(***************************************************************************)
MaxClicks == 2
MaxSize == 1
MaxBootstrapSteps == 2

\* 10e8: bootstrap durations are nanoseconds, rendered as seconds
NanosPerSecond == 1000000000

(***************************************************************************)
(* Values.                                                                 *)
(***************************************************************************)
\* JavaScript null, for refs that hold strings
Null == "<null>"

\* enum Tab of ./types: string enum whose values are the URL tokens
CompileTime == "compile"
Runtime == "runtime"
Bootstrap == "bootstrap"
ArtifactSize == "artifact-size"
Tab == {CompileTime, Runtime, Bootstrap, ArtifactSize}

\* properties every object literal inherits from Object.prototype
ObjectPrototypeKeys == {"toString"}
ObjectPrototype == [k \in ObjectPrototypeKeys |-> "Object.prototype." \o k]

\* values of the tab parameter tried in the URL
TabTokens == {"compile", "runtime", "bootstrap", "artifact-size", "",
              "foo", "toString"}
OtherKeys == {"start", "end", "stat"}
UrlKeys == OtherKeys \cup {"tab"}
UrlValue == [start |-> "s1", end |-> "e1", stat |-> "cycles:u"]
SelectionParams == [start : {"s1", "s2"}, end : {"e1"}, stat : {"cycles:u"}]

\* partial maps: a Dict<string> is a function on the set of its keys
Dicts == UNION {[K -> {UrlValue.start, UrlValue.end, UrlValue.stat}
                       \cup TabTokens] : K \in SUBSET UrlKeys}
OtherKeySets == {{}, {"start"}, OtherKeys}
InitialUrls ==
    {u \in Dicts : /\ DOMAIN u \cap OtherKeys \in OtherKeySets
                   /\ \A k \in DOMAIN u \cap OtherKeys : u[k] = UrlValue[k]
                   /\ "tab" \in DOMAIN u => u["tab"] \in TabTokens}

\* a ?? b
Coalesce(a, b) == IF a = Null THEN b ELSE a

\* obj[key] for a Dict: undefined (here Null) when the key is missing
Get(dict, key) == IF key \in DOMAIN dict THEN dict[key] ELSE Null

\* dict[key] = value
Put(dict, key, value) ==
    [k \in DOMAIN dict \cup {key} |-> IF k = key THEN value ELSE dict[k]]

(***************************************************************************)
(* CompareResponse                                                         *)
(***************************************************************************)
Components == {"rustc", "llvm"}
BootstrapTotals ==
    {-5, 0} \cup {k * (NanosPerSecond \div 2) : k \in 1..MaxBootstrapSteps}
ComponentSizes == UNION {[K -> 0..MaxSize] : K \in SUBSET Components}
EmptySizes == [k \in {} |-> 0]
ArtifactDescription(totals, sizes) ==
    [bootstrap_total : totals, component_sizes : sizes]
\* the responses tried: every pair of bootstrap totals without component
\* sizes, and every pair of component-size mappings without bootstrap totals
CompareResponse ==
    [a : ArtifactDescription(BootstrapTotals, {EmptySizes}),
     b : ArtifactDescription(BootstrapTotals, {EmptySizes})]
    \cup
    [a : ArtifactDescription({0}, ComponentSizes),
     b : ArtifactDescription({0}, ComponentSizes)]

VARIABLES
    url,              \* window.location query string, as a Dict
    pc,               \* position of the page's async setup
    selector,         \* const selector
    initialTab,       \* const initialTab
    tab,              \* ref tab
    loading,          \* ref loading
    data,             \* ref data: <<>> is null, <<r>> is the response r
    compileSummary,   \* ref compileSummary
    runtimeSummary,   \* ref runtimeSummary
    info,             \* let info
    tabs,             \* const tabs: <<>> until built
    tabsActiveTab,    \* tabs.vue: ref activeTab
    emitted           \* changeTab notifications emitted by tabs.vue

vars == <<url, pc, selector, initialTab, tab, loading, data, compileSummary,
          runtimeSummary, info, tabs, tabsActiveTab, emitted>>

(***************************************************************************)
(* URL helpers                                                             *)
(***************************************************************************)
\* utils/navigation getUrlParams: the query string as a fresh Dict
getUrlParams == url

\* utils/navigation changeUrl: the query string becomes the given Dict
changeUrl(urlParams) == urlParams

\* utils/navigation createUrlWithAppendedParams: the current query string
\* with the given parameters set
createUrlWithAppendedParams(params) ==
    Put(Put(Put(url, "start", params.start), "end", params.end),
        "stat", params.stat)

loadSelectorFromUrl(urlParams) ==
    [start |-> Coalesce(Get(urlParams, "start"), ""),
     end   |-> Coalesce(Get(urlParams, "end"), ""),
     stat  |-> Coalesce(Get(urlParams, "stat"), "instructions:u")]

\* the object literal of loadTabFromUrl: own properties
TabsLiteral == [compile |-> CompileTime, runtime |-> Runtime,
                bootstrap |-> Bootstrap] @@
               ("artifact-size" :> ArtifactSize)

\* tabs[tab]: own property, else the prototype chain, else undefined
TabsLookup(key) ==
    IF key \in DOMAIN TabsLiteral THEN TabsLiteral[key]
    ELSE IF key \in DOMAIN ObjectPrototype THEN ObjectPrototype[key]
    ELSE Null

loadTabFromUrl(urlParams) ==
    LET t == Coalesce(Get(urlParams, "tab"), "")
    IN  Coalesce(TabsLookup(t), Null)

\* a storeTabToUrl that writes a fresh Dict holding the tab alone
storeTabToUrl_onlyTab(urlParams, newTab) ==
    changeUrl("tab" :> newTab)

\* a storeTabToUrl that appends the tab to the one already in the query
storeTabToUrl_append(urlParams, newTab) ==
    changeUrl(Put(urlParams, "tab",
                  IF "tab" \in DOMAIN urlParams
                  THEN urlParams["tab"] \o "&tab=" \o newTab
                  ELSE newTab))

\* the query string storeTabToUrl leaves behind
storeTabToUrl(urlParams, newTab) ==
    changeUrl(Put(urlParams, "tab", newTab))

(***************************************************************************)
(* Computed values of the page controller                                  *)
(***************************************************************************)
artifactSizeAvailable ==
    /\ data # <<>>
    /\ \/ Cardinality(DOMAIN data[1].a.component_sizes) > 0
       \/ Cardinality(DOMAIN data[1].b.component_sizes) > 0

\* an activeTab without the fallback
activeTab_noFallback == tab

activeTab ==
    IF tab = ArtifactSize /\ ~artifactSizeAvailable
    THEN CompileTime
    ELSE tab

(***************************************************************************)
(* Summary formatting                                                      *)
(***************************************************************************)
\* Number.prototype.toFixed(3) of millis/1000
ToFixed3(millis) ==
    LET whole == millis \div 1000
        frac  == millis % 1000
    IN  ToString(whole) \o "." \o
        (IF frac < 10 THEN "00" ELSE IF frac < 100 THEN "0" ELSE "") \o
        ToString(frac)

formatBootstrap(value) ==
    IF value > 0
    THEN ToFixed3((value + NanosPerSecond \div 2000) \div (NanosPerSecond \div 1000))
    ELSE "???"

\* ./shared formatSize
formatSize(size) == ToString(size) \o " B"

formatArtifactSize(size) ==
    IF size = 0 THEN "???" ELSE formatSize(size)

\* a bootstrapValid that accepts one positive total
bootstrapValid_either(bootstrapA, bootstrapB) == bootstrapA > 0 \/ bootstrapB > 0

bootstrapValid(bootstrapA, bootstrapB) == bootstrapA > 0 /\ bootstrapB > 0

RECURSIVE SumValues(_, _)
SumValues(f, keys) ==
    IF keys = {} THEN 0
    ELSE LET k == CHOOSE x \in keys : TRUE
         IN  f[k] + SumValues(f, keys \ {k})

\* Object.values(component_sizes).reduce((a, b) => a + b, 0)
totalSize(component_sizes) == SumValues(component_sizes, DOMAIN component_sizes)

\* a sizesAvailable that wants both totals
sizesAvailable_both(totalSizeA, totalSizeB) == totalSizeA > 0 /\ totalSizeB > 0

sizesAvailable(totalSizeA, totalSizeB) == totalSizeA > 0 \/ totalSizeB > 0
bothSizesAvailable(totalSizeA, totalSizeB) == totalSizeA > 0 /\ totalSizeB > 0

NoDelta == [present |-> FALSE, diff |-> 0, baseline |-> 0]

\* const tabs = [...], evaluated once from the response d
BuildTabs(d) ==
    LET bootstrapA == d.a.bootstrap_total
        bootstrapB == d.b.bootstrap_total
        totalSizeA == totalSize(d.a.component_sizes)
        totalSizeB == totalSize(d.b.component_sizes)
    IN  << [id |-> CompileTime, title |-> "Compile-time",
            selected |-> (activeTab = CompileTime),
            summary |-> [from |-> compileSummary, to |-> "", delta |-> NoDelta],
            isVisible |-> TRUE],
           [id |-> Runtime, title |-> "Runtime",
            selected |-> (activeTab = Runtime),
            summary |-> [from |-> runtimeSummary, to |-> "", delta |-> NoDelta],
            isVisible |-> TRUE],
           [id |-> Bootstrap, title |-> "Bootstrap",
            selected |-> (activeTab = Bootstrap),
            summary |->
              [from |-> formatBootstrap(bootstrapA),
               to |-> formatBootstrap(bootstrapB),
               delta |-> IF bootstrapValid(bootstrapA, bootstrapB)
                         THEN [present |-> TRUE,
                               diff |-> bootstrapB - bootstrapA,
                               baseline |-> bootstrapA]
                         ELSE NoDelta],
            isVisible |-> TRUE],
           [id |-> ArtifactSize, title |-> "Artifact size",
            selected |-> (activeTab = ArtifactSize),
            summary |->
              [from |-> formatArtifactSize(totalSizeA),
               to |-> formatArtifactSize(totalSizeB),
               delta |-> IF bothSizesAvailable(totalSizeA, totalSizeB)
                         THEN [present |-> TRUE,
                               diff |-> totalSizeB - totalSizeA,
                               baseline |-> totalSizeA]
                         ELSE NoDelta],
            isVisible |-> sizesAvailable(totalSizeA, totalSizeB)] >>

\* tabs.vue: computed activeTabs, the descriptors the strip renders
activeTabs == SelectSeq(tabs, LAMBDA t : t.isVisible)

RenderedIds == {activeTabs[i].id : i \in 1..Len(activeTabs)}
SelectedIds ==
    {activeTabs[i].id : i \in {j \in 1..Len(activeTabs) : activeTabs[j].selected}}

(***************************************************************************)
(* The page is (re)loaded with query string u: the synchronous part of the *)
(* setup script, up to the await of loadBenchmarkInfo.                     *)
(***************************************************************************)
Setup(u) ==
    /\ url = u
    /\ selector = loadSelectorFromUrl(u)
    /\ initialTab = Coalesce(loadTabFromUrl(u), CompileTime)
    /\ tab = Coalesce(loadTabFromUrl(u), CompileTime)
    /\ loading = TRUE
    /\ data = <<>>
    /\ compileSummary = Null
    /\ runtimeSummary = Null
    /\ info = Null
    /\ tabs = <<>>
    /\ tabsActiveTab = Null
    /\ emitted = <<>>
    /\ pc = "awaitInfo"

Init == \E u \in InitialUrls : Setup(u)

\* loadCompareData after its await: the response arrives
LoadCompareDataResolves(response) ==
    /\ loading = TRUE
    /\ loading' = FALSE
    /\ data' = <<response>>
    /\ compileSummary' = "SummaryGroup"
    /\ runtimeSummary' = "SummaryGroup"
    /\ UNCHANGED <<url, pc, selector, initialTab, tab, info, tabs,
                   tabsActiveTab, emitted>>

\* loadBenchmarkInfo resolves after the data: the rest of setup runs and the
\* template mounts the tab strip (data !== null)
SetupResumes ==
    /\ pc = "awaitInfo"
    /\ data # <<>>
    /\ info' = "BenchmarkInfo"
    /\ tabs' = BuildTabs(data[1])
    /\ tabsActiveTab' = initialTab
    /\ pc' = "mounted"
    /\ UNCHANGED <<url, selector, initialTab, tab, loading, data,
                   compileSummary, runtimeSummary, emitted>>

\* loadBenchmarkInfo resolves before the data: data.value.a throws
SetupThrows ==
    /\ pc = "awaitInfo"
    /\ data = <<>>
    /\ info' = "BenchmarkInfo"
    /\ pc' = "crashed"
    /\ UNCHANGED <<url, selector, initialTab, tab, loading, data,
                   compileSummary, runtimeSummary, tabs, tabsActiveTab,
                   emitted>>

\* page controller: changeTab(newTab), returns the new <<tab, url>>
changeTab(newTab) ==
    <<newTab, storeTabToUrl(getUrlParams, newTab)>>

\* tabs.vue: changeTab(t) on a click, the emit runs the page's handler
TabsChangeTab(t) ==
    /\ pc = "mounted"
    /\ t \in RenderedIds
    /\ Len(emitted) < MaxClicks
    /\ tabsActiveTab' = t
    /\ emitted' = Append(emitted, t)
    /\ tab' = changeTab(t)[1]
    /\ url' = changeTab(t)[2]
    /\ UNCHANGED <<pc, selector, initialTab, loading, data, compileSummary,
                   runtimeSummary, info, tabs>>

\* DataSelector change: navigate to the URL with start, end, stat replaced;
\* the page is loaded anew
updateSelection(params) ==
    /\ pc = "mounted"
    /\ LET u == createUrlWithAppendedParams(params)
       IN  /\ url' = u
           /\ selector' = loadSelectorFromUrl(u)
           /\ initialTab' = Coalesce(loadTabFromUrl(u), CompileTime)
           /\ tab' = Coalesce(loadTabFromUrl(u), CompileTime)
    /\ loading' = TRUE
    /\ data' = <<>>
    /\ compileSummary' = Null
    /\ runtimeSummary' = Null
    /\ info' = Null
    /\ tabs' = <<>>
    /\ tabsActiveTab' = Null
    /\ emitted' = <<>>
    /\ pc' = "awaitInfo"

Next ==
    \/ \E r \in CompareResponse : LoadCompareDataResolves(r)
    \/ SetupResumes
    \/ SetupThrows
    \/ \E t \in Tab : TabsChangeTab(t)
    \/ \E p \in SelectionParams : updateSelection(p)

Spec == Init /\ [][Next]_vars

(***************************************************************************)
(* Properties                                                              *)
(***************************************************************************)
Mounted == pc = "mounted"
Response == data[1]
Descriptor(id) == CHOOSE d \in {tabs[i] : i \in 1..Len(tabs)} : d.id = id
UrlTab == Get(url, "tab")

\* C1: once the comparison data is loaded and the tab strip is shown, the
\* controller's effective active tab is one of the tabs the strip renders
\* (stated for the runs whose initial tab is one of the four enumerated tabs).
C1_ActiveTabIsVisible ==
    (Mounted /\ initialTab \in Tab) => activeTab \in RenderedIds

\* C2: loadTabFromUrl maps the four tokens to their tabs and everything else,
\* the empty string and an absent parameter included, to null; the initial
\* tab is therefore one of the four tabs.
C2_LoadTabFromUrl ==
    LET token == Coalesce(UrlTab, "")
        r == loadTabFromUrl(url)
    IN  /\ token = "compile" => r = CompileTime
        /\ token = "runtime" => r = Runtime
        /\ token = "bootstrap" => r = Bootstrap
        /\ token = "artifact-size" => r = ArtifactSize
        /\ token \notin {"compile", "runtime", "bootstrap", "artifact-size"}
             => r = Null
        /\ initialTab \in Tab

\* C3: the ArtifactSize tab is rendered iff one of the two artifacts has a
\* non-empty component_sizes mapping with a non-zero sum; the other three
\* tabs are always rendered.
C3_ArtifactSizeVisibility ==
    Mounted =>
      LET NonZero(art) ==
              /\ DOMAIN art.component_sizes # {}
              /\ SumValues(art.component_sizes, DOMAIN art.component_sizes) # 0
          shown == NonZero(Response.a) \/ NonZero(Response.b)
      IN  /\ Descriptor(ArtifactSize).isVisible <=> shown
          /\ ArtifactSize \in RenderedIds <=> shown
          /\ \A t \in {CompileTime, Runtime, Bootstrap} :
                Descriptor(t).isVisible /\ t \in RenderedIds

C3_Witness ==
    /\ Mounted
    /\ ArtifactSize \in RenderedIds
    /\ DOMAIN Response.a.component_sizes = {"rustc", "llvm"}
    /\ SumValues(Response.a.component_sizes, {"rustc", "llvm"}) = 0

\* C4: a user selection of tab t sets the strip's selection to t, emits one
\* changeTab notification carrying t, sets the controller's tab to t and the
\* URL's tab parameter to t, and leaves every other query parameter as it was.
C4_TabSelectionEffect ==
    [][\A t \in Tab : TabsChangeTab(t) =>
          /\ tabsActiveTab' = t
          /\ emitted' = Append(emitted, t)
          /\ tab' = t
          /\ "tab" \in DOMAIN url' /\ url'["tab"] = t
          /\ DOMAIN url' \ {"tab"} = DOMAIN url \ {"tab"}
          /\ \A k \in DOMAIN url \ {"tab"} : url'[k] = url[k]]_vars

C4_Witness ==
    /\ Mounted
    /\ emitted # <<>>
    /\ tab = emitted[Len(emitted)]
    /\ UrlTab = Runtime
    /\ DOMAIN url = UrlKeys

\* C5: storing the same tab into the URL twice, each time on the parameters
\* as read from the URL, leaves the query string as storing it once does.
C5_StoreTabIdempotent ==
    \A t \in Tab :
        LET once == storeTabToUrl(getUrlParams, t)
        IN  storeTabToUrl(once, t) = once

C5_Witness ==
    /\ Len(emitted) = 2
    /\ emitted[1] = emitted[2]
    /\ UrlTab = emitted[2]

\* C6: the Bootstrap summary shows a delta when both totals are positive and
\* distinct, shows "???" -> "???" and no delta when both are zero, and shows
\* a delta only when both totals are positive, its baseline being a's total.
C6_BootstrapSummary ==
    Mounted =>
      LET a == Response.a.bootstrap_total
          b == Response.b.bootstrap_total
          s == Descriptor(Bootstrap).summary
      IN  /\ (a > 0 /\ b > 0 /\ a # b) => s.delta.present
          /\ (a = 0 /\ b = 0) =>
                (s.from = "???" /\ s.to = "???" /\ ~s.delta.present)
          /\ s.delta.present <=> (a > 0 /\ b > 0)
          /\ s.delta.present =>
                (s.delta.baseline = a /\ s.delta.baseline > 0
                 /\ s.delta.diff = b - a)

C6_Witness ==
    /\ Mounted
    /\ Response.a.bootstrap_total > 0
    /\ Response.b.bootstrap_total > Response.a.bootstrap_total
    /\ Descriptor(Bootstrap).summary.delta.present
    /\ Descriptor(Bootstrap).summary.from = "0.500"

\* C7: whichever fetch resolves first, the setup never reads fields of data
\* while data is null.
C7_NeverReadsNullData == pc # "crashed"

\* C8: the one tab rendered as selected in the strip is the tab held in the
\* strip's selection state, initially and after every changeTab (stated for
\* the states in which that tab is one of the rendered tabs).
C8_SelectedIsStripSelection ==
    (Mounted /\ tabsActiveTab \in RenderedIds) => SelectedIds = {tabsActiveTab}

\* C9: the strip's selected tab equals the controller's computed activeTab.
C9_StripInSync == Mounted => tabsActiveTab = activeTab

\* C10: with ArtifactSize stored and no artifact-size data available the
\* effective tab is CompileTime while the stored tab and the URL's tab
\* parameter stay ArtifactSize; the stored tab and the URL's tab parameter
\* change only in a user's changeTab.
C10_FallbackKeepsSelection ==
    /\ [](tab = ArtifactSize /\ ~artifactSizeAvailable =>
            /\ activeTab = CompileTime
            /\ UrlTab = "artifact-size")
    /\ [][(tab' # tab \/ Get(url', "tab") # UrlTab) =>
             \E t \in Tab : TabsChangeTab(t)]_vars

C10_Witness ==
    /\ Mounted
    /\ Get(url, "start") = "s2"
    /\ tab = ArtifactSize
    /\ UrlTab = "artifact-size"
    /\ ~artifactSizeAvailable
    /\ activeTab = CompileTime

====
